---- MODULE Spec2Model ----
(***************************************************************************)
(* Artwork identity and originality bookkeeping of yaminuibot.             *)
(*                                                                         *)
(* The store is the relational schema of db/models.py: the artwork table   *)
(* (unique on (type, aid)) and the post table (unique on (channel_id,      *)
(* post_id)).  Both tables are sequences in insertion order; a row's       *)
(* position stands for its autoincrement primary key, and a relationship   *)
(* that is loaded without ORDER BY yields its rows in that order.  A post  *)
(* row carries the (type, aid) of the artwork its artwork_id refers to.    *)
(*                                                                         *)
(* Migration sessions run the import loop and the final pass of            *)
(* db/migrate_db.py against the store.  The lookup of a dump entry and the *)
(* commit of its rows are separate steps, so that two runs can interleave  *)
(* between them; a commit checks the uniqueness constraints against the    *)
(* rows committed so far.  The final pass is one transaction and one step. *)
(*                                                                         *)
(* The bot's own parts each have a specification of their own: the         *)
(* Channel id validator and the cid codec (SpecChannel), formatter over    *)
(* tokenised texts (SpecText), the selection branch of the message handler *)
(* (SpecSelect), get_other_links over a stored post table (SpecLinks) and  *)
(* the not_busy gate of the preference commands with handler threads that  *)
(* interleave between its calls (SpecGate), the retry loop of              *)
(* get_pixiv_links (SpecPixiv), channel_check (SpecReg), the import of     *)
(* users and channels by migrate_db (SpecImport), and the handlers that    *)
(* record posts, handle_post, universal and answer_query, as two threads   *)
(* that interleave between check_original and the insert, together with    *)
(* the final pass (SpecLive; SpecRecord for a user in forward mode).       *)
(***************************************************************************)
EXTENDS Integers, Sequences, FiniteSets, TLC

\* ------------------------------------------------------------------ bounds
\* dump entries read over all migration runs; post rows and handlers in
\* flight of the handlers that record posts
MaxRows == 2
\* channel-local message ids
MaxPostId == 2
\* channels above the offset of the codec
MaxChan == 2
\* tokens of a text handed to formatter
MaxText == 3
\* tokens of a text taken for a selection
MaxSel == 5
\* handlers started over all handler threads
MaxCalls == 3
\* fetches of one call of get_pixiv_links that fail
MaxFetch == 8
\* users of users.json
MaxUsers == 3

\* --------------------------------------------------------------- constants
TWITTER == 0
PIXIV == 1

Types == {TWITTER, PIXIV}
\* sample values of the unbounded columns: one artwork id per platform,
\* one channel, an earlier and a later post_date
Aids == {1}
ChannelIds == {-1001}
PostIds == 1 .. MaxPostId
Dates == {1, 2}
Files == {<<>>, <<"a">>, <<"b">>}
Sessions == {"m1", "m2"}
Keys == [type : Types, aid : Aids]

VARIABLES
    artworks,   \* artwork table: sequence of [type, aid, files]
    posts,      \* post table: sequence of post rows
    pc,         \* position of every migration session
    cur,        \* the dump entry a session is working on and what it read
                \* (channel_id and post_id are kept for a rejected entry)
    err,        \* the constraint named by the IntegrityError a session got
    nread,      \* dump entries taken so far, over all sessions
    lastOp,     \* history: the last operation on the post table ("pass2":
                \* the same final pass ran at least twice in a row)
    firstFiles, \* history: first non-empty files committed for each key
    channel,    \* one Channel object: its id and loaded cid, and the last
                \* assignment to id with the error it raised
    text,       \* the text handed to formatter: a sequence of tokens
    fmt,        \* what formatter returned and what its caller made of it
    seltext,    \* the message text a user sent while a selection is awaited
    count,      \* files of the artwork the selection indexes into
    sel,        \* what the selection branch made of the text
    links,      \* the last call of get_other_links and what it returned
    not_busy,   \* the flag of the threading.Event of the same name
    user,       \* the committed row of one user
    th,         \* every handler thread: its position and its handler
    ncalls,     \* handlers started so far
    lastRead,   \* what the last get_user_data returned, and whether a
                \* command was inside the gated section when it read
    committed,  \* history: every preference set the row has held
    pix,        \* one call of get_pixiv_links: its position, tries, the
                \* fetches that failed, the tokens received and the result
    chans,      \* channel table of the registration: for every channel id
                \* whether its row exists and its admin_id (0 is NULL)
    lastCheck,  \* the last channel_check and how it ended
    imp,        \* the import of users and channels by migrate_db: its
                \* position, users.json as read and as the loop left it,
                \* and the user rows of the session
    hs,         \* the posting handlers in flight: handle_post, universal
                \* and answer_query, each with its update and what it read
    created     \* history: every post row as it was when it was added

migVars == <<artworks, posts, pc, cur, err, nread, lastOp, firstFiles>>
chanVars == <<channel>>
fmtVars == <<text, fmt>>
selVars == <<seltext, count, sel>>
linkVars == <<links>>
gateVars == <<not_busy, user, th, ncalls, lastRead, committed>>
pixVars == <<pix>>
regVars == <<chans, lastCheck>>
impVars == <<imp>>
liveVars == <<hs, created>>
\* the variables the migration leaves alone
botVars == <<chanVars, fmtVars, selVars, linkVars, gateVars, pixVars,
             regVars, impVars, liveVars>>

vars == <<migVars, botVars>>

\* what the actions of one part leave alone: the variables of the others
exceptChan == <<migVars, fmtVars, selVars, linkVars, gateVars, pixVars,
               regVars, impVars, liveVars>>
exceptFmt == <<migVars, chanVars, selVars, linkVars, gateVars, pixVars,
               regVars, impVars, liveVars>>
exceptSel == <<migVars, chanVars, fmtVars, linkVars, gateVars, pixVars,
               regVars, impVars, liveVars>>
exceptLink == <<migVars, chanVars, fmtVars, selVars, gateVars, pixVars,
               regVars, impVars, liveVars>>
exceptGate == <<migVars, chanVars, fmtVars, selVars, linkVars, pixVars,
               regVars, impVars, liveVars>>
exceptReg == <<migVars, chanVars, fmtVars, selVars, linkVars, gateVars,
              pixVars, impVars, liveVars>>
exceptImp == <<migVars, chanVars, fmtVars, selVars, linkVars, gateVars,
              pixVars, regVars, liveVars>>
\* the posting handlers write the post table and the user row themselves
exceptLive == <<chanVars, fmtVars, selVars, linkVars, pixVars, regVars,
               impVars>>
exceptPix == <<migVars, chanVars, fmtVars, selVars, linkVars, gateVars,
              regVars, impVars, liveVars>>

\* ----------------------------------------------------------------- helpers
KeyOf(r) == [type |-> r.type, aid |-> r.aid]

\* rows of the artwork table that carry one identity
ArtWorkRows(arts, k) == {i \in DOMAIN arts : KeyOf(arts[i]) = k}

\* s.query(ArtWork).filter_by(aid=..).filter_by(type=..).first():
\* the id of the first matching row, 0 when there is none
FindArtWork(arts, k) ==
    IF ArtWorkRows(arts, k) # {}
    THEN CHOOSE i \in ArtWorkRows(arts, k) :
            \A j \in ArtWorkRows(arts, k) : i <= j
    ELSE 0

\* uix_artwork: UniqueConstraint("type", "aid")
UixArtworkAllows(arts, k) == ArtWorkRows(arts, k) = {}

\* a post table without a uniqueness constraint
UixPostAllowsAll(ps, c, p) == TRUE

\* uix_post: UniqueConstraint("channel_id", "post_id")
UixPostAllows(ps, c, p) ==
    \A i \in DOMAIN ps : ~(ps[i].channel_id = c /\ ps[i].post_id = p)

\* ids of the posts of one artwork (ArtWork.posts); the smallest id is
\* posts[0] of the relationship
PostsOf(ps, k) == {i \in DOMAIN ps : KeyOf(ps[i]) = k}

FirstOf(S) == CHOOSE i \in S : \A j \in S : i <= j

NoCur == [type |-> TWITTER, aid |-> 0, files |-> <<>>, found |-> 0,
          backfill |-> FALSE, channel_id |-> 0, post_id |-> 0]

\* -------------------------------------------------------------------- init
\* Channel(): no column is set (None is 0, which id can never hold)
NoChannel == [id |-> 0, loaded |-> FALSE, cid |-> 0, decoded |-> FALSE,
              back |-> 0, op |-> "new", value |-> 0, error |-> "none"]

\* formatter was not called
NoFmt == [op |-> "none", none |-> FALSE, links |-> <<>>, error |-> "none"]

ChanIdle == channel = NoChannel

FmtIdle == text = <<>> /\ fmt = NoFmt

\* no text was taken for a selection
NoSel == [op |-> "none", expanded |-> <<>>, ids |-> <<>>, error |-> "none"]

SelIdle == seltext = <<>> /\ count = 0 /\ sel = NoSel

\* get_other_links was not called
NoLinks == [op |-> "none", type |-> TWITTER, aid |-> 0, result |-> <<>>]

LinksIdle == links = NoLinks

Threads == {"h1", "h2"}

\* a handler thread between two updates
NoHandler == [pc |-> "idle", cmd |-> "none", flag |-> FALSE, style |-> 0]

\* User(): the column defaults; channel tells whether the user has one,
\* known whether the row is in the store at all
NewUser(has_channel) ==
    [forward_mode |-> FALSE, reply_mode |-> TRUE, media_mode |-> FALSE,
     pixiv_style |-> 1, last_info |-> "None", channel |-> has_channel,
     known |-> TRUE]

\* the preference set get_user_data returns
Prefs(u) ==
    [forward_mode |-> u.forward_mode, reply_mode |-> u.reply_mode,
     media_mode |-> u.media_mode, pixiv_style |-> u.pixiv_style,
     last_info |-> u.last_info]

NoRead == [by |-> "none", none |-> FALSE, data |-> Prefs(NewUser(FALSE)),
           during |-> FALSE]

GateIdle ==
    /\ not_busy = TRUE
    /\ user = NewUser(FALSE)
    /\ th = [t \in Threads |-> NoHandler]
    /\ ncalls = 0
    /\ lastRead = NoRead
    /\ committed = {Prefs(NewUser(FALSE))}

\* get_pixiv_links was not called
NoPixiv == [pc |-> "off", pixiv_id |-> 0, tries |-> 0, fails |-> 0,
            tokens |-> 0, result |-> "none"]

PixIdle == pix = NoPixiv

\* ids of the users and of the channels that take part in registrations
RegUsers == {1, 2}
RegChannels == {-1001, -1002}

\* no channel is in the store
NoChans == [c \in RegChannels |-> [exists |-> FALSE, admin_id |-> 0]]

NoCheck == [user |-> 0, channel |-> 0, outcome |-> "none"]

RegIdle == chans = NoChans /\ lastCheck = NoCheck

\* users.json was not read
NoImport == [pc |-> "off", i |-> 0, dumped |-> <<>>, users |-> <<>>,
             stored |-> <<>>, channels |-> FALSE, committed |-> FALSE]

ImpIdle == imp = NoImport

\* a posting handler between two updates; data is what get_user_data
\* returned to it
NoLive == [pc |-> "idle", kind |-> "none", type |-> TWITTER, aid |-> 0,
           fwd |-> FALSE, fetch |-> 0, rej |-> "none",
           orig |-> FALSE, data |-> NewUser(FALSE)]

LiveIdle ==
    /\ hs = [t \in Threads |-> NoLive]
    /\ created = <<>>

\* the bot's handlers are not running
BotIdle ==
    /\ ChanIdle
    /\ FmtIdle
    /\ SelIdle
    /\ LinksIdle
    /\ GateIdle
    /\ PixIdle
    /\ RegIdle
    /\ ImpIdle
    /\ LiveIdle

Init ==
    /\ artworks = <<>>
    /\ posts = <<>>
    /\ pc = [s \in Sessions |-> "loop"]
    /\ cur = [s \in Sessions |-> NoCur]
    /\ err = [s \in Sessions |-> "none"]
    /\ nread = 0
    /\ lastOp = "none"
    /\ firstFiles = [k \in Keys |-> <<>>]
    /\ BotIdle

\* a single migration run: the second session never starts
InitSeq ==
    /\ artworks = <<>>
    /\ posts = <<>>
    /\ pc = [s \in Sessions |-> IF s = "m1" THEN "loop" ELSE "off"]
    /\ cur = [s \in Sessions |-> NoCur]
    /\ err = [s \in Sessions |-> "none"]
    /\ nread = 0
    /\ lastOp = "none"
    /\ firstFiles = [k \in Keys |-> <<>>]
    /\ BotIdle

\* ------------------------------------------------------- migrate_db: loop
\* lines 76-96: take the next dump entry and look its artwork up; a found
\* row gets its files backfilled in the session, a missing one is added.
\* The entry's post fields are drawn when line 98 first uses them.
Resolve(s) ==
    /\ pc[s] = "loop"
    /\ nread < MaxRows
    /\ \E k \in Keys, f \in Files :
         LET a == FindArtWork(artworks, k) IN
         cur' = [cur EXCEPT ![s] =
                    [type |-> k.type, aid |-> k.aid, files |-> f,
                     found |-> a,
                     backfill |-> a # 0 /\ f # <<>>
                                  /\ artworks[a].files = <<>>,
                     channel_id |-> 0, post_id |-> 0]]
    /\ pc' = [pc EXCEPT ![s] = "commit"]
    /\ nread' = nread + 1
    /\ UNCHANGED <<artworks, posts, err, lastOp, firstFiles>>
    /\ UNCHANGED botVars

\* a backfill that does not look at the stored files
FlushOverwrite(arts, c) ==
    IF c.found = 0
    THEN Append(arts, [type |-> c.type, aid |-> c.aid, files |-> c.files])
    ELSE IF c.files # <<>>
         THEN [arts EXCEPT ![c.found].files = c.files]
         ELSE arts

\* lines 85-96: the artwork table after the session's pending artwork
\* changes are flushed
FlushArtWork(arts, c) ==
    IF c.found = 0
    THEN Append(arts, [type |-> c.type, aid |-> c.aid, files |-> c.files])
    ELSE IF c.backfill
         THEN [arts EXCEPT ![c.found].files = c.files]
         ELSE arts

\* lines 98-106: the post row built from the dump entry
NewPost(c, ch, p, d, fwd) ==
    [type |-> c.type, aid |-> c.aid, channel_id |-> ch, post_id |-> p,
     post_date |-> d, is_original |-> IF fwd THEN FALSE ELSE TRUE,
     is_forwarded |-> fwd]

\* an artwork table without a uniqueness constraint
ViolatedNoArtwork(c, ch, p) ==
    IF ~UixPostAllows(posts, ch, p) THEN "uix_post" ELSE "none"

\* the constraint the flush of line 111 violates: the artwork INSERT is
\* flushed before the post INSERT that references it
Violated(c, ch, p) ==
    IF c.found = 0 /\ ~UixArtworkAllows(artworks, KeyOf(c))
    THEN "uix_artwork"
    ELSE IF ~UixPostAllows(posts, ch, p) THEN "uix_post" ELSE "none"

\* lines 107-111: s.add(p); s.commit() succeeds
Commit(s) ==
    /\ pc[s] = "commit"
    /\ \E ch \in ChannelIds, p \in PostIds, d \in Dates, fwd \in BOOLEAN :
         /\ Violated(cur[s], ch, p) = "none"
         /\ artworks' = FlushArtWork(artworks, cur[s])
         /\ posts' = Append(posts, NewPost(cur[s], ch, p, d, fwd))
    /\ firstFiles' =
         IF firstFiles[KeyOf(cur[s])] = <<>>
         THEN [firstFiles EXCEPT ![KeyOf(cur[s])] = cur[s].files]
         ELSE firstFiles
    /\ pc' = [pc EXCEPT ![s] = "loop"]
    /\ cur' = [cur EXCEPT ![s] = NoCur]
    /\ lastOp' = "insert"
    /\ UNCHANGED <<err, nread>>
    /\ UNCHANGED botVars

\* line 111: s.commit() hits a uniqueness constraint; the IntegrityError is
\* not caught, the transaction is rolled back and migrate_db is left
CommitRejected(s) ==
    /\ pc[s] = "commit"
    /\ \E ch \in ChannelIds, p \in PostIds :
         /\ Violated(cur[s], ch, p) # "none"
         /\ err' = [err EXCEPT ![s] = Violated(cur[s], ch, p)]
         /\ cur' = [cur EXCEPT ![s].channel_id = ch, ![s].post_id = p]
    /\ pc' = [pc EXCEPT ![s] = "raised"]
    /\ UNCHANGED <<artworks, posts, nread, lastOp, firstFiles>>
    /\ UNCHANGED botVars

\* ------------------------------------------------- migrate_db: final pass
\* a pass that flips is_original on posts[1:] instead of clearing it
ReconcileFlip(ps, arts) ==
    [i \in DOMAIN ps |->
        IF /\ ArtWorkRows(arts, KeyOf(ps[i])) # {}
           /\ Cardinality(PostsOf(ps, KeyOf(ps[i]))) > 1
           /\ i # FirstOf(PostsOf(ps, KeyOf(ps[i])))
        THEN [ps[i] EXCEPT !.is_original = ~ps[i].is_original]
        ELSE ps[i]]

\* lines 116-133: every artwork with more than one post keeps posts[0] as
\* it is and has is_original cleared on posts[1:]
ReconcileNew(ps, arts) ==
    [i \in DOMAIN ps |->
        IF /\ ArtWorkRows(arts, KeyOf(ps[i])) # {}
           /\ Cardinality(PostsOf(ps, KeyOf(ps[i]))) > 1
           /\ i # FirstOf(PostsOf(ps, KeyOf(ps[i])))
        THEN [ps[i] EXCEPT !.is_original = FALSE]
        ELSE ps[i]]

\* old_migrate_db lines 193-208: the self-join selects every row that has a
\* sibling of the same (aid, type) with a strictly earlier post_date
ReconcileOld(ps) ==
    [i \in DOMAIN ps |->
        IF \E j \in DOMAIN ps :
              /\ j # i
              /\ KeyOf(ps[j]) = KeyOf(ps[i])
              /\ ps[j].post_date < ps[i].post_date
        THEN [ps[i] EXCEPT !.is_original = FALSE]
        ELSE ps[i]]

\* reached from line 112, when the dump is exhausted
FinalPass(s) ==
    /\ pc[s] = "loop"
    /\ posts' = ReconcileNew(posts, artworks)
    /\ pc' = [pc EXCEPT ![s] = "done"]
    /\ lastOp' = IF lastOp \in {"pass", "pass2"} THEN "pass2" ELSE "pass"
    /\ UNCHANGED <<artworks, cur, err, nread, firstFiles>>
    /\ UNCHANGED botVars

OldFinalPass(s) ==
    /\ pc[s] = "loop"
    /\ posts' = ReconcileOld(posts)
    /\ pc' = [pc EXCEPT ![s] = "done"]
    /\ lastOp' = IF lastOp \in {"old_pass", "old_pass2"} THEN "old_pass2"
                 ELSE "old_pass"
    /\ UNCHANGED <<artworks, cur, err, nread, firstFiles>>
    /\ UNCHANGED botVars

Next == \E s \in Sessions :
          \/ Resolve(s)
          \/ Commit(s)
          \/ CommitRejected(s)
          \/ FinalPass(s)
          \/ OldFinalPass(s)

Spec == Init /\ [][Next]_vars

SpecSeq == InitSeq /\ [][Next]_vars

\* no migration session is running
MigIdle ==
    /\ artworks = <<>>
    /\ posts = <<>>
    /\ pc = [s \in Sessions |-> "off"]
    /\ cur = [s \in Sessions |-> NoCur]
    /\ err = [s \in Sessions |-> "none"]
    /\ nread = 0
    /\ lastOp = "none"
    /\ firstFiles = [k \in Keys |-> <<>>]

\* ======================================================== Channel.id, cid
\* the offset 10 ** 12 of the codec, scaled to 10 ** 9 to stay within the
\* integers of the model checker; ids keep their position relative to it
CidOffset == 1000000000

\* values assigned to Channel.id: ids of channels (below -CidOffset), the
\* offset itself, small negative numbers, zero and positive numbers
IdValues == {-(CidOffset + n) : n \in 0 .. MaxChan} \cup (-1 .. 1)

\* a codec that drops the negation
ChannelCidPlain(id) == id + CidOffset

\* cid = column_property(-(id + 10 ** 12))
ChannelCid(id) == -(id + CidOffset)

\* get_post_link: the cid put into a link is -(cid + 10 ** 12) of its
\* argument
GetPostLinkCid(cid) == -(cid + CidOffset)

\* a validator that only looks at the sign of the value
WriteAnyNegativeId(id, value) ==
    IF ~(value < 0) THEN "can't be positive" ELSE "none"

\* _write_once_id: the ValueError it raises, "none" when it returns value
WriteOnceId(id, value) ==
    IF id # 0 THEN "write-once"
    ELSE IF ~(value < 0) THEN "can't be positive"
    ELSE "none"

\* channel.id = value: the validator runs before the attribute is set
SetId ==
    \E value \in IdValues :
        /\ channel' = [channel EXCEPT
                         !.op = "set", !.value = value,
                         !.error = WriteOnceId(channel.id, value),
                         !.id = IF WriteOnceId(channel.id, value) = "none"
                                THEN value ELSE channel.id]
        /\ UNCHANGED exceptChan

\* the row is loaded: cid is computed from the stored id by the SELECT
LoadCid ==
    /\ channel.id # 0
    /\ channel' = [channel EXCEPT !.op = "load", !.loaded = TRUE,
                                  !.cid = ChannelCid(channel.id)]
    /\ UNCHANGED exceptChan

\* the loaded cid is mapped back
DecodeCid ==
    /\ channel.loaded
    /\ channel' = [channel EXCEPT !.op = "decode", !.decoded = TRUE,
                                  !.back = GetPostLinkCid(channel.cid)]
    /\ UNCHANGED exceptChan

InitChannel == MigIdle /\ BotIdle

NextChannel == SetId \/ LoadCid \/ DecodeCid

SpecChannel == InitChannel /\ [][NextChannel]_vars

\* ============================================================== formatter
\* a token of a text: a reference to an artwork of one platform as either
\* regular expression of link_dict matches it, or a word neither matches
Word == [type |-> -1, id |-> 0]

Tokens == [type : Types, id : Aids \cup {2}] \cup {Word}

RECURSIVE TextsUpTo(_)
TextsUpTo(n) ==
    IF n = 0 THEN {<<>>}
    ELSE LET T == TextsUpTo(n - 1) IN
         T \cup {Append(t, k) : t \in {u \in T : Len(u) = n - 1},
                                k \in Tokens}

\* Link(type, link, id): the canonical URL is formatted from the platform's
\* pattern and the id
LinkOf(k) == [type |-> k.type, link |-> <<k.type, k.id>>, id |-> k.id]

\* re.finditer(re_type["re"], query) for one platform, left to right
RECURSIVE FindIter(_, _)
FindIter(t, query) ==
    IF query = <<>> THEN <<>>
    ELSE IF Head(query).type = t
         THEN <<LinkOf(Head(query))>> \o FindIter(t, Tail(query))
         ELSE FindIter(t, Tail(query))

\* formatter: None for an empty query; otherwise the matches of the twitter
\* pattern followed by the matches of the pixiv pattern (link_dict order)
Formatter(query) ==
    IF query = <<>>
    THEN [op |-> "formatter", none |-> TRUE, links |-> <<>>,
          error |-> "none"]
    ELSE [op |-> "formatter", none |-> FALSE,
          links |-> FindIter(TWITTER, query) \o FindIter(PIXIV, query),
          error |-> "none"]

\* formatter(text) is called
CallFormatter ==
    /\ fmt.op = "none"
    /\ fmt' = Formatter(text)
    /\ UNCHANGED <<exceptFmt, text>>

\* check_message on a message with one link item: result += formatter(..)
\* raises TypeError when formatter returned None
CheckMessage ==
    /\ fmt.op = "none"
    /\ fmt' = IF Formatter(text).none
              THEN [Formatter(text) EXCEPT !.op = "check_message",
                                           !.error = "TypeError"]
              ELSE [Formatter(text) EXCEPT !.op = "check_message"]
    /\ UNCHANGED <<exceptFmt, text>>

InitText ==
    /\ MigIdle
    /\ ChanIdle
    /\ SelIdle
    /\ LinksIdle
    /\ GateIdle
    /\ PixIdle
    /\ RegIdle
    /\ ImpIdle
    /\ LiveIdle
    /\ text \in TextsUpTo(MaxText)
    /\ fmt = NoFmt

NextText == CallFormatter \/ CheckMessage

SpecText == InitText /\ [][NextText]_vars

\* ============================================================== selection
\* tokens of a message text: a maximal run of digits is its number, DASH is
\* "-", SEP is one of the separators ".", "," and whitespace
DASH == -1
SEP == -2

\* sample numbers: below the range, inside it, and far enough apart for a
\* range of more than MaxChoose entries
SelNums == {0, 1, 2, 3, 5, 11}

SelTokens == SelNums \cup {DASH, SEP}

\* sample sizes of the artwork shown last
Counts == {10, 11}

\* the tokens that can follow a text: two runs of digits are never
\* adjacent
TokensAfter(t) ==
    {k \in SelTokens : t = <<>> \/ t[Len(t)] < 0 \/ k < 0}

\* texts of at most n tokens
RECURSIVE SelTextsUpTo(_)
SelTextsUpTo(n) ==
    IF n = 0 THEN {<<>>}
    ELSE LET T == SelTextsUpTo(n - 1) IN
         T \cup UNION {{Append(t, k) : k \in TokensAfter(t)} :
                          t \in {u \in T : Len(u) = n - 1}}

\* files one selection may name
MaxChoose == 10
\* groups pixiv_regex admits
MaxGroups == 10

RECURSIVE SkipSep(_)
SkipSep(t) ==
    IF t # <<>> /\ Head(t) = SEP THEN SkipSep(Tail(t)) ELSE t

\* a number followed by "-" and a number
IsPair(t) == Len(t) >= 3 /\ t[1] >= 0 /\ t[2] = DASH /\ t[3] >= 0

\* groups (\d+)(-\d+)?[.,\s]* the whole text consists of, -1 when the text
\* is not a sequence of such groups
RECURSIVE Groups(_)
Groups(t) ==
    IF t = <<>> THEN 0
    ELSE IF Head(t) < 0 THEN -1
    ELSE LET rest == SkipSep(IF IsPair(t) THEN SubSeq(t, 4, Len(t))
                             ELSE Tail(t))
             g == Groups(rest)
         IN  IF g = -1 THEN -1 ELSE g + 1

\* pixiv_regex: ^((?:\d+)(?:-\d+)?[.,\s]*){1,10}$
PixivRegex(t) == Groups(t) \in 1 .. MaxGroups

\* a pattern without the optional second number: every run of digits is a
\* match of its own
RECURSIVE PixivNumberDigits(_)
PixivNumberDigits(t) ==
    IF t = <<>> THEN <<>>
    ELSE IF Head(t) < 0 THEN PixivNumberDigits(Tail(t))
    ELSE <<[n1 |-> t[1], n2 |-> -1]>> \o PixivNumberDigits(Tail(t))

\* pixiv_number.finditer: the matches ((?P<n1>\d+)(?:-(?P<n2>\d+))?) from
\* left to right; n2 is -1 (None) when the group did not take part
RECURSIVE PixivNumber(_)
PixivNumber(t) ==
    IF t = <<>> THEN <<>>
    ELSE IF Head(t) < 0 THEN PixivNumber(Tail(t))
    ELSE IF IsPair(t)
         THEN <<[n1 |-> t[1], n2 |-> t[3]]>>
              \o PixivNumber(SubSeq(t, 4, Len(t)))
         ELSE <<[n1 |-> t[1], n2 |-> -1]>> \o PixivNumber(Tail(t))

\* the indices one match stands for: n1 down to n2 when n1 > n2, n1 up to
\* n2 otherwise, n2 being n1 when it is absent
ExpandPair(m) ==
    LET n2 == IF m.n2 = -1 THEN m.n1 ELSE m.n2 IN
    IF m.n1 > n2
    THEN [i \in 1 .. (m.n1 - n2 + 1) |-> m.n1 - i + 1]
    ELSE [i \in 1 .. (n2 - m.n1 + 1) |-> m.n1 + i - 1]

\* the expansions of all matches, concatenated in order of appearance
RECURSIVE ExpandAll(_)
ExpandAll(ms) ==
    IF ms = <<>> THEN <<>>
    ELSE ExpandPair(Head(ms)) \o ExpandAll(Tail(ms))

\* a filter that keeps every element
UnduplicateKeepAll(arr, seen) == arr

\* unduplicate: [i for i in arr if not (i in seen or seen_add(i))]
RECURSIVE Unduplicate(_, _)
Unduplicate(arr, seen) ==
    IF arr = <<>> THEN <<>>
    ELSE IF Head(arr) \in seen THEN Unduplicate(Tail(arr), seen)
    ELSE <<Head(arr)>> \o Unduplicate(Tail(arr), seen \cup {Head(arr)})

SeqMax(q) == CHOOSE x \in {q[i] : i \in DOMAIN q} :
                \A i \in DOMAIN q : q[i] <= x
\* a smallest index that is taken to be 1 whatever the list holds
SeqMinOne(q) == 1

SeqMin(q) == CHOOSE x \in {q[i] : i \in DOMAIN q} :
                \A i \in DOMAIN q : x <= q[i]

\* a check of the range that comes before the check of the length
SelectionErrorRangeFirst(ids, n) ==
    IF SeqMax(ids) > n \/ SeqMin(ids) < 1 THEN "OutOfBounds"
    ELSE IF Len(ids) > MaxChoose THEN "TooMany"
    ELSE "none"

\* the error the selection branch sends: the length of the deduplicated
\* list is checked first, then its largest and smallest index
SelectionError(ids, n) ==
    IF Len(ids) > MaxChoose THEN "TooMany"
    ELSE IF SeqMax(ids) > n \/ SeqMin(ids) < 1 THEN "OutOfBounds"
    ELSE "none"

\* the selection branch of the message handler: the text matches
\* pixiv_regex while an artwork of count files awaits a selection
Select ==
    /\ sel.op = "none"
    /\ PixivRegex(seltext)
    /\ LET expanded == ExpandAll(PixivNumber(seltext))
           ids == Unduplicate(expanded, {})
       IN  sel' = [op |-> "select", expanded |-> expanded, ids |-> ids,
                   error |-> SelectionError(ids, count)]
    /\ UNCHANGED <<exceptSel, seltext, count>>

\* the text does not match pixiv_regex: the branch is not taken
NotSelection ==
    /\ sel.op = "none"
    /\ ~PixivRegex(seltext)
    /\ sel' = [sel EXCEPT !.op = "ignored"]
    /\ UNCHANGED <<exceptSel, seltext, count>>

InitSelect ==
    /\ MigIdle
    /\ ChanIdle
    /\ FmtIdle
    /\ LinksIdle
    /\ GateIdle
    /\ PixIdle
    /\ RegIdle
    /\ ImpIdle
    /\ LiveIdle
    /\ seltext \in SelTextsUpTo(MaxSel)
    /\ count \in Counts
    /\ sel = NoSel

NextSelect == Select \/ NotSelection

SpecSelect == InitSelect /\ [][NextSelect]_vars

\* ======================================================== get_other_links
\* ids of two channels the bot posts to
LinkChannelIds == {-(CidOffset + 1), -(CidOffset + 2)}

\* postings as the handlers record them: not forwarded
LinkRows ==
    {NewPost([type |-> k.type, aid |-> k.aid], ch, p, d, FALSE) :
        k \in Keys, ch \in LinkChannelIds, p \in PostIds, d \in Dates}

\* post tables of at most n rows that satisfy uix_post
RECURSIVE LinkTablesUpTo(_)
LinkTablesUpTo(n) ==
    IF n = 0 THEN {<<>>}
    ELSE LET T == LinkTablesUpTo(n - 1) IN
         T \cup UNION {{Append(t, r) :
                            r \in {x \in LinkRows :
                                     UixPostAllows(t, x.channel_id,
                                                   x.post_id)}} :
                          t \in {u \in T : Len(u) = n - 1}}

\* the artwork rows a post table refers to, in order of first reference
RECURSIVE ArtWorksOf(_)
ArtWorksOf(ps) ==
    IF ps = <<>> THEN <<>>
    ELSE LET front == ArtWorksOf(SubSeq(ps, 1, Len(ps) - 1))
             last == ps[Len(ps)]
         IN  IF ArtWorkRows(front, KeyOf(last)) # {} THEN front
             ELSE Append(front, [type |-> last.type, aid |-> last.aid,
                                 files |-> <<>>])

\* every order of the rows, sorted or not
RowOrders(ps, S) ==
    {q \in [1 .. Cardinality(S) -> S] :
        \A i, j \in DOMAIN q : q[i] = q[j] => i = j}

\* order_by(post_date.asc()): the orders of the rows S in which post_date
\* never decreases; rows of equal post_date come in any order
SortedOrders(ps, S) ==
    {q \in [1 .. Cardinality(S) -> S] :
        /\ \A i, j \in DOMAIN q : q[i] = q[j] => i = j
        /\ \A i, j \in DOMAIN q :
              i < j => ps[q[i]].post_date <= ps[q[j]].post_date}

\* telegram_link.format(cid=.., post_id=..) for one row of the join with
\* the channel table
TelegramLink(r) == [cid |-> ChannelCid(r.channel_id), post_id |-> r.post_id]

\* get_other_links(aid, type)
GetOtherLinks ==
    /\ links.op = "none"
    /\ \E k \in Keys :
         \E q \in SortedOrders(posts, PostsOf(posts, k)) :
            links' = [op |-> "get_other_links", type |-> k.type,
                      aid |-> k.aid,
                      result |-> [i \in DOMAIN q |-> TelegramLink(posts[q[i]])]]
    /\ UNCHANGED exceptLink

InitLinks ==
    /\ posts \in LinkTablesUpTo(MaxRows)
    /\ artworks = ArtWorksOf(posts)
    /\ pc = [s \in Sessions |-> "off"]
    /\ cur = [s \in Sessions |-> NoCur]
    /\ err = [s \in Sessions |-> "none"]
    /\ nread = 0
    /\ lastOp = "none"
    /\ firstFiles = [k \in Keys |-> <<>>]
    /\ BotIdle

NextLinks == GetOtherLinks

SpecLinks == InitLinks /\ [][NextLinks]_vars

\* ======================================================= preference gate
\* PixivStyle.styles = range(6)
NumStyles == 6

Flags == {"forward_mode", "reply_mode", "media_mode"}

\* /forward, /reply and /media toggle their flag, /style steps pixiv_style
Commands == Flags \cup {"pixiv_style"}

\* a command thread is past not_busy.clear() and before not_busy.set()
InSection(t) == th[t].cmd \in Commands /\ th[t].pc \in {"get", "commit", "set"}

\* a handler thread takes a preference command: not_busy.wait() returns
\* because the flag is set
CommandWait(t) ==
    /\ th[t].pc = "idle"
    /\ ncalls < MaxCalls
    /\ not_busy
    /\ \E c \in Commands :
         th' = [th EXCEPT ![t] = [NoHandler EXCEPT !.pc = "clear", !.cmd = c]]
    /\ ncalls' = ncalls + 1
    /\ UNCHANGED <<not_busy, user, lastRead, committed>>
    /\ UNCHANGED exceptGate

\* not_busy.clear()
Clear(t) ==
    /\ th[t].pc = "clear"
    /\ not_busy' = FALSE
    /\ th' = [th EXCEPT ![t].pc = "get"]
    /\ UNCHANGED <<user, ncalls, lastRead, committed>>
    /\ UNCHANGED exceptGate

\* validate_forwarding: forward_mode cannot be enabled without a channel
ValidateForwarding(u, c, value) ==
    ~(c = "forward_mode" /\ value /\ ~u.channel)

\* toggler and command_style up to the commit: s.get loads the row and the
\* new value is set on the loaded object; the AttributeError for a user
\* that s.get does not find and the ValueError of the validator leave the
\* handler with the flag still cleared
TogglerGet(t) ==
    /\ th[t].pc = "get"
    /\ th' = IF ~user.known
             THEN [th EXCEPT ![t].pc = "raised"]
             ELSE IF th[t].cmd = "pixiv_style"
             THEN [th EXCEPT ![t].pc = "commit",
                             ![t].style = (user.pixiv_style + 1) % NumStyles]
             ELSE IF ValidateForwarding(user, th[t].cmd, ~user[th[t].cmd])
             THEN [th EXCEPT ![t].pc = "commit",
                             ![t].flag = ~user[th[t].cmd]]
             ELSE [th EXCEPT ![t].pc = "raised"]
    /\ UNCHANGED <<not_busy, user, ncalls, lastRead, committed>>
    /\ UNCHANGED exceptGate

\* s.commit(): the UPDATE writes the changed column
TogglerCommit(t) ==
    /\ th[t].pc = "commit"
    /\ user' = IF th[t].cmd = "pixiv_style"
               THEN [user EXCEPT !.pixiv_style = th[t].style]
               ELSE [user EXCEPT ![th[t].cmd] = th[t].flag]
    /\ committed' = committed \cup {Prefs(user')}
    /\ th' = [th EXCEPT ![t].pc = "set"]
    /\ UNCHANGED <<not_busy, ncalls, lastRead>>
    /\ UNCHANGED exceptGate

\* send_reply(..); not_busy.set()
SetNotBusy(t) ==
    /\ th[t].pc = "set"
    /\ not_busy' = TRUE
    /\ th' = [th EXCEPT ![t] = NoHandler]
    /\ UNCHANGED <<user, ncalls, lastRead, committed>>
    /\ UNCHANGED exceptGate

\* a handler thread reaches get_user_data: not_busy.wait() returns
ReaderWait(t) ==
    /\ th[t].pc = "idle"
    /\ ncalls < MaxCalls
    /\ not_busy
    /\ th' = [th EXCEPT ![t] = [NoHandler EXCEPT !.pc = "read",
                                                 !.cmd = "get_user_data"]]
    /\ ncalls' = ncalls + 1
    /\ UNCHANGED <<not_busy, user, lastRead, committed>>
    /\ UNCHANGED exceptGate

\* a load that takes reply_mode from the column default
LoadUserDefault(u) == [Prefs(u) EXCEPT !.reply_mode = TRUE]

\* s.get(db.User, id): one SELECT loads every column of the committed row
LoadUser(u) == Prefs(u)

\* the rest of get_user_data: the data dictionary is filled from the loaded
\* row; None when the user is not found and when forward_mode is on and
\* the user has no channel
ReaderGet(t) ==
    /\ th[t].pc = "read"
    /\ lastRead' = [by |-> t,
                    none |-> ~user.known
                             \/ (user.forward_mode /\ ~user.channel),
                    data |-> LoadUser(user),
                    during |-> \E o \in Threads : InSection(o)]
    /\ th' = [th EXCEPT ![t] = NoHandler]
    /\ UNCHANGED <<not_busy, user, ncalls, committed>>
    /\ UNCHANGED exceptGate

InitGate ==
    /\ MigIdle
    /\ ChanIdle
    /\ FmtIdle
    /\ SelIdle
    /\ LinksIdle
    /\ PixIdle
    /\ RegIdle
    /\ ImpIdle
    /\ LiveIdle
    /\ not_busy = TRUE
    /\ \E c \in BOOLEAN, k \in BOOLEAN :
         /\ ~k => ~c
         /\ user = [NewUser(c) EXCEPT !.known = k]
         /\ committed = {Prefs(NewUser(c))}
    /\ th = [t \in Threads |-> NoHandler]
    /\ ncalls = 0
    /\ lastRead = NoRead

NextGate == \E t \in Threads :
              \/ CommandWait(t)
              \/ Clear(t)
              \/ TogglerGet(t)
              \/ TogglerCommit(t)
              \/ SetNotBusy(t)
              \/ ReaderWait(t)
              \/ ReaderGet(t)

SpecGate == InitGate /\ [][NextGate]_vars

\* ======================================================= get_pixiv_links
\* while tries < 3
MaxTries == 3

\* api.illust_detail returns the illustration: the artwork is returned
FetchOk ==
    /\ pix.pc = "fetch"
    /\ pix.tries < MaxTries
    /\ pix' = [pix EXCEPT !.pc = "done", !.result = "artwork"]
    /\ UNCHANGED exceptPix

\* the response carries an error with a user message: None is returned
FetchUserError ==
    /\ pix.pc = "fetch"
    /\ pix.tries < MaxTries
    /\ pix.fails < MaxFetch
    /\ pix' = [pix EXCEPT !.pc = "done", !.result = "None",
                          !.fails = pix.fails + 1]
    /\ UNCHANGED exceptPix

\* the response carries an error without a user message: a new access
\* token is asked for
FetchError ==
    /\ pix.pc = "fetch"
    /\ pix.tries < MaxTries
    /\ pix.fails < MaxFetch
    /\ pix' = [pix EXCEPT !.pc = "refresh", !.fails = pix.fails + 1]
    /\ UNCHANGED exceptPix

\* get_pixiv_token returns a token: it is stored and the loop goes on
\* with tries as it was
TokenReceived ==
    /\ pix.pc = "refresh"
    /\ pix' = [pix EXCEPT !.pc = "fetch", !.tokens = pix.tokens + 1]
    /\ UNCHANGED exceptPix

\* get_pixiv_token returns nothing: tries += 1
NoToken ==
    /\ pix.pc = "refresh"
    /\ pix' = [pix EXCEPT !.pc = "fetch", !.tries = pix.tries + 1]
    /\ UNCHANGED exceptPix

\* the loop condition fails: return None
GiveUp ==
    /\ pix.pc = "fetch"
    /\ ~(pix.tries < MaxTries)
    /\ pix' = [pix EXCEPT !.pc = "done", !.result = "None"]
    /\ UNCHANGED exceptPix

InitPixiv ==
    /\ MigIdle
    /\ ChanIdle
    /\ FmtIdle
    /\ SelIdle
    /\ LinksIdle
    /\ GateIdle
    /\ RegIdle
    /\ ImpIdle
    /\ LiveIdle
    /\ \E i \in Aids \cup {2} :
         pix = [NoPixiv EXCEPT !.pc = "fetch", !.pixiv_id = i]

NextPixiv ==
    \/ FetchOk
    \/ FetchUserError
    \/ FetchError
    \/ TokenReceived
    \/ NoToken
    \/ GiveUp

SpecPixiv == InitPixiv /\ [][NextPixiv]_vars

\* ========================================================== channel_check
\* how the checks before the assignment end: the message is not forwarded
\* from a chat, the chat is a supergroup, the bot or the user is no admin,
\* the bot was kicked (Unauthorized), or all of them pass
Checks == {"not forwarded", "supergroup", "not admin", "kicked", "passed"}

\* a test that lets every channel through
AlreadyOwnedNever(ch, c) == FALSE

\* (c := s.get(db.Channel, channel.id)) and c.admin
AlreadyOwned(ch, c) == ch[c].exists /\ ch[c].admin_id # 0

\* u.channel = c, u.channel = None and Channel(.., admin=u): the channel
\* the user had loses its admin, channel c gets the user as its admin
SetUserChannel(ch, u, c) ==
    [x \in RegChannels |->
        IF x = c THEN [exists |-> TRUE, admin_id |-> u]
        ELSE IF ch[x].admin_id = u THEN [ch[x] EXCEPT !.admin_id = 0]
        ELSE ch[x]]

\* channel_check for a message of user u forwarded from channel c
ChannelCheck ==
    /\ \E u \in RegUsers, c \in RegChannels, k \in Checks :
         IF k \in {"not forwarded", "supergroup"}
         THEN /\ lastCheck' = [user |-> u, channel |-> c, outcome |-> k]
              /\ UNCHANGED chans
         ELSE IF AlreadyOwned(chans, c)
         THEN /\ lastCheck' = [user |-> u, channel |-> c,
                               outcome |-> "already owned"]
              /\ UNCHANGED chans
         ELSE IF k # "passed"
         THEN /\ lastCheck' = [user |-> u, channel |-> c, outcome |-> k]
              /\ UNCHANGED chans
         ELSE /\ lastCheck' = [user |-> u, channel |-> c, outcome |-> "done"]
              /\ chans' = SetUserChannel(chans, u, c)
    /\ UNCHANGED exceptReg

InitReg ==
    /\ MigIdle
    /\ ChanIdle
    /\ FmtIdle
    /\ SelIdle
    /\ LinksIdle
    /\ GateIdle
    /\ PixIdle
    /\ RegIdle
    /\ ImpIdle
    /\ LiveIdle

NextReg == ChannelCheck

SpecReg == InitReg /\ [][NextReg]_vars

\* ============================================ migrate_db: users, channels
\* a user of users.json: forward_mode as dumped, and whether channels.json
\* holds a channel of the user; forward_mode is on only with a channel
RECURSIVE DumpsUpTo(_)
DumpsUpTo(n) ==
    IF n = 0 THEN {<<>>}
    ELSE LET D == DumpsUpTo(n - 1) IN
         D \cup {Append(d, u) :
                    d \in {x \in D : Len(x) = n - 1},
                    u \in {v \in [forward_mode : BOOLEAN,
                                  channel : BOOLEAN] :
                             v.forward_mode => v.channel}}

\* lines 59-63: forward_mode is kept in a local, the entry is added with
\* forward_mode False, and line 63 assigns the entry's forward_mode to
\* itself
AddUser ==
    /\ imp.pc = "users"
    /\ imp.i < Len(imp.users)
    /\ LET n == imp.i + 1
           entry == [imp.users[n] EXCEPT !.forward_mode = FALSE]
       IN  imp' = [imp EXCEPT
                     !.i = n,
                     !.users = [imp.users EXCEPT
                                  ![n] = [entry EXCEPT
                                            !.forward_mode =
                                                entry.forward_mode]],
                     !.stored = Append(imp.stored,
                                       [forward_mode |-> entry.forward_mode,
                                        channel |-> FALSE])]
    /\ UNCHANGED exceptImp

\* lines 65-66: the channels are added; every user's channel is there
AddChannels ==
    /\ imp.pc = "users"
    /\ imp.i = Len(imp.users)
    /\ imp' = [imp EXCEPT
                 !.pc = "restore", !.i = 0, !.channels = TRUE,
                 !.stored = [n \in DOMAIN imp.stored |->
                               [imp.stored[n] EXCEPT
                                  !.channel = imp.dumped[n].channel]]]
    /\ UNCHANGED exceptImp

\* lines 68-69: forward_mode of the stored user is set from the entry;
\* validate_forwarding lets the value through
RestoreForwardMode ==
    /\ imp.pc = "restore"
    /\ imp.i < Len(imp.users)
    /\ LET n == imp.i + 1 IN
       /\ ValidateForwarding(imp.stored[n], "forward_mode",
                             imp.users[n].forward_mode)
       /\ imp' = [imp EXCEPT
                    !.i = n,
                    !.stored[n].forward_mode = imp.users[n].forward_mode]
    /\ UNCHANGED exceptImp

\* line 70: s.commit()
CommitUsers ==
    /\ imp.pc = "restore"
    /\ imp.i = Len(imp.users)
    /\ imp' = [imp EXCEPT !.pc = "done", !.committed = TRUE]
    /\ UNCHANGED exceptImp

InitImport ==
    /\ MigIdle
    /\ ChanIdle
    /\ FmtIdle
    /\ SelIdle
    /\ LinksIdle
    /\ GateIdle
    /\ PixIdle
    /\ RegIdle
    /\ LiveIdle
    /\ \E d \in DumpsUpTo(MaxUsers) :
         imp = [NoImport EXCEPT !.pc = "users", !.dumped = d, !.users = d]

NextImport == AddUser \/ AddChannels \/ RestoreForwardMode \/ CommitUsers

SpecImport == InitImport /\ [][NextImport]_vars

\* ================================== main.py: the handlers that record posts
\* db.INFO_LINK, the fourth of the styles command_style lists; this style
\* and the next, db.INFO_EMBED_LINK, post a pixiv artwork of several files
\* without asking
INFO_LINK == 3

\* len(data["last_info"]["thumbs"]) of the cached artwork
InfoThumbs == 10

\* check_original: no row of the identity is in the table
check_original(ps, k) == PostsOf(ps, k) = {}

\* the handler posts to the channel: a tweet always, a pixiv artwork when
\* it has one file or the style is an info style; the transport delivers
\* what it is given
Posted(h) ==
    \/ h.type = TWITTER
    \/ h.fetch = 1
    \/ h.data.pixiv_style \in {INFO_LINK, INFO_LINK + 1}

\* get_links, get_twitter_links or get_pixiv_links is called by the
\* handler and returns nothing
FetchFails(h) ==
    /\ h.fetch = 0
    /\ \/ h.kind \in {"reply", "repost"}
       \/ h.kind = "direct" /\ h.orig
       \/ h.kind = "forward" /\ h.data.media_mode

\* the handler reaches s.add(db.ArtWork(...)); s.commit(). answer_query
\* goes on when forward mode is off and raises KeyError at data["channel"],
\* which get_user_data sets in forward mode only
Records(h) ==
    CASE h.kind = "intake" -> TRUE
      [] h.kind = "forward" -> TRUE
      [] h.kind = "direct" -> h.orig /\ h.fetch > 0 /\ Posted(h)
      [] h.kind = "repost" ->
            h.fetch > 0 /\ h.data.forward_mode /\ Posted(h)
      [] h.kind = "select" -> h.rej = "none" /\ h.data.forward_mode
      [] OTHER -> FALSE

\* is_original of the row the handler adds
RowOriginal(h) ==
    CASE h.kind \in {"intake", "select"} -> h.orig
      [] h.kind = "direct" -> TRUE
      [] OTHER -> FALSE

\* is_forwarded of the row the handler adds
RowForwarded(h) ==
    CASE h.kind = "intake" -> h.fwd
      [] h.kind = "forward" -> TRUE
      [] OTHER -> FALSE

\* the handler stores the artwork in last_info and asks for a selection
Asks(h) ==
    /\ h.type = PIXIV
    /\ h.fetch > 0
    /\ CASE h.kind = "reply" -> h.fetch # 1
         [] h.kind = "direct" -> h.orig /\ ~Posted(h)
         [] h.kind = "repost" -> h.data.forward_mode /\ ~Posted(h)
         [] OTHER -> FALSE

\* universal line 1444 names art, which the selection branch never binds:
\* the reply after a recorded selection raises UnboundLocalError
SelectRaises(h) ==
    h.kind = "select" /\ Records(h) /\ h.data.reply_mode

\* lines 1468-1471 are reached: u.last_info = None
Clears(h) == h.kind = "select" /\ h.rej = "none" /\ ~SelectRaises(h)

\* a table in which adding a row clears is_original on the earlier rows of
\* its identity
RecordDemote(ps, row) ==
    Append([i \in DOMAIN ps |->
               IF KeyOf(ps[i]) = KeyOf(row)
               THEN [ps[i] EXCEPT !.is_original = FALSE]
               ELSE ps[i]],
           row)

\* s.add(db.ArtWork(**artwork)); s.commit(): one row more, the others as
\* they were
Record(ps, row) == Append(ps, row)

\* the handler takes its update: get_user_data, the text's one link or the
\* numbers of a selection, and what the platform answers to the fetch of a
\* handler that fetches first. handle_post and the posting branch of
\* universal look the identity up first; a selection does when it was
\* accepted and posted.
Begin(t) ==
    /\ hs[t].pc = "idle"
    /\ Len(posts) + Cardinality({h \in Threads : hs[h].pc # "idle"})
          < MaxRows
    /\ \E kind \in {"intake", "reply", "forward", "direct", "select",
                    "repost"},
          k \in Keys, fwd \in BOOLEAN, fetch \in 0 .. 2,
          nums \in {<<1>>, <<2, 1, 2>>, <<11>>, [i \in 1 .. 11 |-> i]} :
         LET rej == SelectionError(Unduplicate(nums, {}), InfoThumbs)
             h == [pc |-> "post", kind |-> kind, type |-> k.type,
                   aid |-> k.aid, fwd |-> fwd, fetch |-> fetch,
                   rej |-> rej, orig |-> FALSE,
                   data |-> user]
         IN
         /\ kind = "intake" => fetch = 0 /\ nums = <<1>>
         /\ kind = "reply" => ~user.forward_mode /\ ~fwd /\ nums = <<1>>
         /\ kind = "forward" =>
               /\ user.forward_mode /\ fwd /\ nums = <<1>>
               /\ ~user.media_mode => fetch = 0
         /\ kind = "direct" =>
               user.forward_mode /\ ~fwd /\ fetch = 0 /\ nums = <<1>>
         /\ kind = "repost" => ~fwd /\ nums = <<1>>
         /\ kind = "select" =>
               /\ user.last_info # "None"
               /\ k = [type |-> PIXIV, aid |-> 1]
               /\ ~fwd
               /\ fetch = 0
         /\ hs' = [hs EXCEPT
                     ![t] = IF \/ kind \in {"intake", "direct"}
                               \/ kind = "select" /\ Records(h)
                            THEN [h EXCEPT !.pc = "check"]
                            ELSE h]
    /\ UNCHANGED <<migVars, gateVars, created>>
    /\ UNCHANGED exceptLive

\* the read of check_original, a session of its own; the posting branch
\* of universal goes on to get_links when the identity is new
CheckOriginal(t) ==
    /\ hs[t].pc = "check"
    /\ \E fetch \in 0 .. 2 :
         LET orig == check_original(posts, KeyOf(hs[t])) IN
         /\ ~(hs[t].kind = "direct" /\ orig) => fetch = 0
         /\ hs' = [hs EXCEPT
                     ![t].pc = "post", ![t].orig = orig,
                     ![t].fetch = fetch]
    /\ UNCHANGED <<migVars, gateVars, created>>
    /\ UNCHANGED exceptLive

\* the rest of the handler: the fetch, the post to the channel, the row of
\* the post, the replies, and the write of last_info
Finish(t) ==
    /\ hs[t].pc = "post"
    /\ LET h == hs[t] IN
       /\ IF Records(h)
          THEN \E d \in Dates :
                 /\ \A i \in DOMAIN posts : posts[i].post_date <= d
                 /\ LET row == [type |-> h.type, aid |-> h.aid,
                                channel_id |-> -1001,
                                post_id |-> Len(posts) + 1,
                                post_date |-> d,
                                is_original |-> RowOriginal(h),
                                is_forwarded |-> RowForwarded(h)]
                    IN  /\ posts' = Record(posts, row)
                        /\ created' = Append(created, row)
          ELSE UNCHANGED <<posts, created>>
       /\ user' = IF Asks(h) THEN [user EXCEPT !.last_info = "info"]
                  ELSE IF Clears(h) THEN [user EXCEPT !.last_info = "None"]
                  ELSE user
    /\ artworks' = ArtWorksOf(posts')
    /\ hs' = [hs EXCEPT ![t] = NoLive]
    /\ UNCHANGED <<pc, cur, err, nread, lastOp, firstFiles>>
    /\ UNCHANGED <<not_busy, th, ncalls, lastRead, committed>>
    /\ UNCHANGED exceptLive

\* a user row of the store: forward_mode only with a channel, an image
\* style or an info style
LiveUsers ==
    {u \in [forward_mode : BOOLEAN, reply_mode : BOOLEAN,
            media_mode : BOOLEAN, pixiv_style : {1, INFO_LINK},
            last_info : {"None", "info"}, channel : BOOLEAN,
            known : {TRUE}] :
        ValidateForwarding(u, "forward_mode", u.forward_mode)}

\* an empty table, any user row, and the final pass of one migration
\* script still to come
InitLive ==
    /\ artworks = <<>>
    /\ posts = <<>>
    /\ pc = [s \in Sessions |-> IF s = "m1" THEN "loop" ELSE "off"]
    /\ cur = [s \in Sessions |-> NoCur]
    /\ err = [s \in Sessions |-> "none"]
    /\ nread = 0
    /\ lastOp = "none"
    /\ firstFiles = [k \in Keys |-> <<>>]
    /\ ChanIdle
    /\ FmtIdle
    /\ SelIdle
    /\ LinksIdle
    /\ not_busy = TRUE
    /\ user \in LiveUsers
    /\ th = [t \in Threads |-> NoHandler]
    /\ ncalls = 0
    /\ lastRead = NoRead
    /\ committed = {Prefs(NewUser(FALSE))}
    /\ PixIdle
    /\ RegIdle
    /\ ImpIdle
    /\ LiveIdle

NextLive ==
    \/ \E t \in Threads : Begin(t)
    \/ \E t \in Threads : CheckOriginal(t)
    \/ \E t \in Threads : Finish(t)
    \/ FinalPass("m1")
    \/ OldFinalPass("m1")

SpecLive == InitLive /\ [][NextLive]_vars

\* the handlers of a user in forward mode, the only ones besides
\* handle_post that add rows
InitRecord ==
    /\ InitLive
    /\ user.forward_mode
    /\ ~user.reply_mode
    /\ user.media_mode
    /\ user.pixiv_style = 1
    /\ user.last_info = "info"

SpecRecord == InitRecord /\ [][NextLive]_vars

\* ================================================================ claims
Originals(ps, k) == {i \in PostsOf(ps, k) : ps[i].is_original}

\* posts of a group that no sibling precedes in post_date
Earliest(ps, k) ==
    {i \in PostsOf(ps, k) :
        \A j \in PostsOf(ps, k) : ps[i].post_date <= ps[j].post_date}

HasEarlierSibling(ps, i) ==
    \E j \in PostsOf(ps, KeyOf(ps[i])) : ps[j].post_date < ps[i].post_date

\* a final pass has just run: no insert was committed since
AfterPass == lastOp \in {"pass", "pass2", "old_pass", "old_pass2"}

\* the same final pass has run again right after itself
PassedTwice == lastOp \in {"pass2", "old_pass2"}

\* C1: however the resolves of the import loop interleave, the artwork
\* table holds exactly one row for every (type, aid) that a committed
\* resolve has recorded a post for, and no row for any other identity.
C1_OneArtworkPerIdentity ==
    \A k \in Keys :
        Cardinality(ArtWorkRows(artworks, k)) =
            IF PostsOf(posts, k) # {} THEN 1 ELSE 0

\* two sessions resolved the same missing identity; one insert was rejected
C1_Witness ==
    \E s \in Sessions :
        /\ err[s] = "uix_artwork"
        /\ Cardinality(ArtWorkRows(artworks, KeyOf(cur[s]))) = 1

\* C2: after the final pass every group of posts that share an artwork
\* contains exactly one post with is_original = TRUE.
C2_ExactlyOneOriginal ==
    AfterPass =>
        \A k \in Keys :
            PostsOf(posts, k) # {} => Cardinality(Originals(posts, k)) = 1

\* C3: after the final pass, in every group of more than one post a post
\* of the earliest post_date is the original one and every post that has a
\* sibling with a strictly earlier post_date is not original.
C3_EarliestIsOriginal ==
    AfterPass =>
        \A k \in Keys :
            Cardinality(PostsOf(posts, k)) > 1 =>
                /\ \E i \in Earliest(posts, k) : posts[i].is_original
                /\ \A i \in PostsOf(posts, k) :
                      HasEarlierSibling(posts, i) => ~posts[i].is_original

\* C4: a final pass that runs right after a final pass of the same kind,
\* with no insert in between, leaves every post as the first run left it.
C4_PassIdempotent == [][PassedTwice' => posts' = posts]_vars

\* the pass ran twice in a row over a group in which the first run had
\* cleared a flag
C4_Witness ==
    /\ PassedTwice
    /\ \E i \in DOMAIN posts :
          ~posts[i].is_original /\ ~posts[i].is_forwarded

\* C5: when several posts of an artwork share the earliest post_date, the
\* final pass leaves the first of them in row order original and the other
\* ones not original.
C5_TieBrokenByRowOrder ==
    AfterPass =>
        \A k \in Keys :
            Cardinality(Earliest(posts, k)) >= 2 =>
                \A i \in Earliest(posts, k) :
                    posts[i].is_original <=> i = FirstOf(Earliest(posts, k))

\* C6: a posting is recorded with is_original = TRUE if and only if no
\* posting of its (type, aid) was recorded before it.
C6_OriginalIffFirstRecorded ==
    [][Len(posts') = Len(posts) + 1 =>
          (posts'[Len(posts')].is_original
              <=> PostsOf(posts, KeyOf(posts'[Len(posts')])) = {})]_vars

PostRows(ps, c, p) ==
    {i \in DOMAIN ps : ps[i].channel_id = c /\ ps[i].post_id = p}

\* C7: the post table never holds two rows with the same (channel_id,
\* post_id), and it holds exactly one row for a pair whose repeated insert
\* was rejected.
C7_OnePostPerMessage ==
    /\ \A c \in ChannelIds, p \in PostIds :
          Cardinality(PostRows(posts, c, p)) <= 1
    /\ \A s \in Sessions :
          err[s] = "uix_post" =>
              Cardinality(PostRows(posts, cur[s].channel_id,
                                   cur[s].post_id)) = 1

\* a (channel_id, post_id) that is stored was inserted again and rejected
C7_Witness ==
    \E s \in Sessions :
        /\ err[s] = "uix_post"
        /\ PostRows(posts, cur[s].channel_id, cur[s].post_id) # {}

\* C8: recording a posting whose (channel_id, post_id) is already stored
\* completes without an error reaching the caller.
C8_DuplicatePostIsNoOp == \A s \in Sessions : err[s] # "uix_post"

\* C9: a resolve whose artwork insert loses against a concurrent creator
\* of the same (type, aid) completes without an error reaching the caller.
C9_LoserCompletes == \A s \in Sessions : err[s] # "uix_artwork"

\* C10: in a run of resolves the files of an artwork equal the first
\* non-empty files supplied for its (type, aid): empty files are backfilled
\* and non-empty files are kept.
C10_FirstNonEmptyFilesWin ==
    \A k \in Keys :
        ArtWorkRows(artworks, k) # {} =>
            artworks[FindArtWork(artworks, k)].files = firstFiles[k]

\* a resolve found non-empty files and was supplied different non-empty ones
C10_Witness ==
    \E s \in Sessions :
        /\ pc[s] = "commit"
        /\ cur[s].found # 0
        /\ cur[s].files # <<>>
        /\ artworks[cur[s].found].files # <<>>
        /\ artworks[cur[s].found].files # cur[s].files
        /\ ~cur[s].backfill

\* C14: the codec is its own inverse on every stored channel id, and a
\* loaded cid equals -(id + offset) of the channel's id
C14_CodecSelfInverse ==
    /\ channel.loaded => channel.cid = -(channel.id + CidOffset)
    /\ channel.decoded => channel.back = channel.id

C14_Witness ==
    /\ channel.decoded
    /\ channel.id < -CidOffset
    /\ channel.cid > 0
    /\ channel.back = channel.id

\* C15: an assignment to Channel.id of a non-negative value, or of any
\* value when the id is already set, raises and leaves the id as it was
C15_IdWriteOnceNegative ==
    [][(channel'.op = "set"
        /\ (channel.id # 0 \/ ~(channel'.value < 0)))
       => (channel'.error # "none" /\ channel'.id = channel.id)]_vars

C15_Witness ==
    /\ channel.op = "set"
    /\ channel.error = "write-once"
    /\ channel.value < 0
    /\ channel.value # channel.id

\* the references of a text in the order in which they occur
RECURSIVE InTextOrder(_)
InTextOrder(query) ==
    IF query = <<>> THEN <<>>
    ELSE IF Head(query) # Word
         THEN <<LinkOf(Head(query))>> \o InTextOrder(Tail(query))
         ELSE InTextOrder(Tail(query))

\* C16: formatter returns one triple per reference of the text, in the
\* order in which the references occur across both platforms, duplicates
\* kept
C16_TriplesInTextOrder ==
    (fmt.op = "formatter" /\ ~fmt.none) => fmt.links = InTextOrder(text)

\* C17: for a text without any reference, the empty text included,
\* formatter returns an empty sequence and its caller does not fail
C17_UnmatchedGivesEmpty ==
    (fmt.op # "none" /\ InTextOrder(text) = <<>>)
        => (~fmt.none /\ fmt.links = <<>> /\ fmt.error = "none")

\* position of the first occurrence of x in q
FirstIndex(q, x) ==
    CHOOSE i \in DOMAIN q : q[i] = x /\ \A j \in 1 .. (i - 1) : q[j] # x

PostingsOfLink(l) ==
    {i \in DOMAIN posts :
        /\ -(posts[i].channel_id + CidOffset) = l.cid
        /\ posts[i].post_id = l.post_id}

\* C13: get_other_links returns one link per stored posting of the given
\* identity, made of the channel's public id and the post id, in ascending
\* order of post_date, and leaves the store as it was
C13_OneLinkPerPosting ==
    /\ [](links.op = "get_other_links" =>
            LET k == [type |-> links.type, aid |-> links.aid]
                r == links.result
            IN  /\ Len(r) = Cardinality(PostsOf(posts, k))
                /\ \A i \in PostsOf(posts, k) :
                      Cardinality({j \in DOMAIN r :
                                      i \in PostingsOfLink(r[j])}) = 1
                /\ \A j \in DOMAIN r :
                      Cardinality(PostingsOfLink(r[j])) = 1
                /\ \A i, j \in DOMAIN r :
                      i < j => \A a \in PostingsOfLink(r[i]),
                                  b \in PostingsOfLink(r[j]) :
                                  posts[a].post_date <= posts[b].post_date)
    /\ [][links'.op = "get_other_links"
            => (posts' = posts /\ artworks' = artworks)]_vars

\* two postings of one artwork in two channels, the later one stored first
C13_Witness ==
    /\ links.op = "get_other_links"
    /\ Len(links.result) = 2
    /\ links.result[1].cid # links.result[2].cid
    /\ Len(posts) = 2
    /\ posts[1].post_date > posts[2].post_date

\* C11: at most one preference command is inside the gated section, and no
\* get_user_data read happens while a command is inside it
C11_GateExcludes ==
    /\ Cardinality({t \in Threads : InSection(t)}) <= 1
    /\ ~lastRead.during

\* C12: what get_user_data returned is a preference set the committed row
\* held at one instant
C12_ReadNotTorn ==
    (lastRead.by # "none" /\ ~lastRead.none) => lastRead.data \in committed

\* a read between the commits of two commands that ran at the same time
C12_Witness ==
    /\ lastRead.by # "none"
    /\ Cardinality(committed) >= 2
    /\ lastRead.data \in committed
    /\ \E t \in Threads : th[t].pc = "commit"

\* some index of the deduplicated list lies outside 1 .. count
SomeIndexOutside ==
    \E i \in DOMAIN sel.ids : sel.ids[i] < 1 \/ sel.ids[i] > count

C26_GateReopens ==
    ~not_busy => \E t \in Threads : InSection(t)

\* C28: get_pixiv_links gives up after at most 3 failed attempts: the
\* fetches of one call that failed never exceed 3
C28_AtMostThreeFailures ==
    pix.fails <= 3

\* C23: every user is the admin of at most one channel, and a channel that
\* has an admin never gets a different user as its admin
C23_OneChannelPerUser ==
    /\ [](\A u \in RegUsers :
            Cardinality({c \in RegChannels : chans[c].admin_id = u}) <= 1)
    /\ [][\A c \in RegChannels :
            chans[c].admin_id # 0
               => chans'[c].admin_id \in {chans[c].admin_id, 0}]_vars

\* a user who had a channel registered another one, and the channel of the
\* other user was refused
C23_Witness ==
    /\ lastCheck.outcome = "already owned"
    /\ chans[lastCheck.channel].admin_id # lastCheck.user
    /\ \E c \in RegChannels : chans[c].exists /\ chans[c].admin_id = 0

\* C29: after the import of users and channels is committed, every user's
\* stored forward_mode is the forward_mode of users.json
C29_ForwardModeRestored ==
    imp.committed =>
        \A n \in DOMAIN imp.dumped :
            imp.stored[n].forward_mode = imp.dumped[n].forward_mode

\* a handler thread ends its handler in this step
Ends(t) == hs[t].pc = "post" /\ hs'[t].pc = "idle"

\* C22: a handler whose metadata fetch returns nothing adds no post row
\* and leaves the user's last_info as it was
C22_FailedFetchMutatesNothing ==
    [][\A t \in Threads :
          Ends(t) /\ FetchFails(hs[t]) =>
              posts' = posts /\ user'.last_info = user.last_info]_vars

\* C24: a step changes no field of an existing post row except
\* is_original, and is_original only in a step of the reconciliation pass,
\* in which no handler moves
C24_OnlyPassChangesOriginal ==
    [][\A i \in DOMAIN posts :
          /\ i \in DOMAIN posts'
          /\ [posts'[i] EXCEPT !.is_original = posts[i].is_original]
                = posts[i]
          /\ posts'[i].is_original # posts[i].is_original =>
                /\ hs' = hs
                /\ lastOp' \in {"pass", "old_pass"}]_vars

\* a row a handler added as original was cleared by the pass, and is
\* otherwise as it was added
C24_Witness ==
    /\ lastOp \in {"pass", "old_pass"}
    /\ \E i \in DOMAIN posts :
         /\ created[i].is_original
         /\ posts[i] = [created[i] EXCEPT !.is_original = FALSE]

\* C25: whatever the interleaving of the handlers, at most one row of an
\* identity has is_original set
C25_OneOriginalUnderInterleaving ==
    \A k \in Keys :
        Cardinality({i \in PostsOf(posts, k) : posts[i].is_original}) <= 1

\* C27: a rejected selection leaves last_info and the post table alone;
\* an accepted selection that was recorded or whose files were sent ends
\* with last_info cleared
C27_SelectionClearsLastInfo ==
    [][\A t \in Threads :
          Ends(t) /\ hs[t].kind = "select" =>
              /\ hs[t].rej # "none" =>
                    posts' = posts /\ user'.last_info = user.last_info
              /\ hs[t].rej = "none" => user'.last_info = "None"]_vars

\* C30: a row with is_forwarded set never has is_original set, whichever
\* handler or pass wrote it
C30_ForwardedNotOriginal ==
    \A i \in DOMAIN posts : ~(posts[i].is_forwarded /\ posts[i].is_original)

====
